---- MODULE Spec2Model ----
(***************************************************************************)
(* Model of hyperstone's plugin lifecycle (plugins/base.py) and of the PE  *)
(* loader (plugins/loaders/pe.py).                                         *)
(*                                                                         *)
(* Addresses, sizes, offsets and words are counted in units of 2^16 bytes  *)
(* (the granularity of calculate_aslr's "<< 16"), so that the high-entropy *)
(* floor 0x7ff0_0000_0000 is 0x7ff0_0000 units.  Every word of the model   *)
(* sits at an address that is a whole number of units.                     *)
(***************************************************************************)
EXTENDS Integers, Sequences, FiniteSets, TLC

\* ------------------------------------------------------------------ bounds
MaxCalls == 4          \* top-level calls made by the environment
MaxReqs == 3           \* of which interact() calls on the loader

\* --------------------------------------------------------------- constants
NoEmu == 0             \* Plugin.emu is None
MainEmu == 1           \* the backing service whose settings/memory are modelled
OtherEmu == 2          \* another HyperEmu object
NoBase == -1           \* PELoaderInfo.base is None
NoPlugin == 0          \* a collaborator reference that is None
AslrRetries == 5
AslrFloor == 2146435072        \* 0x0000_7ff0_0000_0000 / 2^16
BitsHighDll == 19
BitsHighExe == 17
BitsLowDll == 14
BitsLowExe == 8
UserBase == 20         \* the explicit base a request may carry

Emus == {MainEmu, OtherEmu}
NoFile == <<>>

\* ----------------------------------------------------- the files on disk
\* file identities and dependency names are strings: sequences of characters,
\* compared with Python's "in" (substring)
FileA == <<1>>         \* "app"
FileL == <<2>>         \* "lib", the name the app's first import carries
FileM == <<8, 2>>      \* "old/lib", another file whose path contains "lib"
FileN == <<3>>         \* "fixed", not relocatable
Files == {FileA, FileL, FileM, FileN}

PermR == {"R"}
PermRW == {"R", "W"}
PermRX == {"R", "X"}
PermRWX == {"R", "W", "X"}

\* lief.PE.parse(file): the structured view of each file
PE(f) ==
  CASE f = FileA ->
        [imagebase |-> 4, virtual_size |-> 6, sizeof_headers |-> 1,
         is_pie |-> TRUE, dynamic_base |-> TRUE,
         high_entropy |-> FALSE, is_dll |-> FALSE,
         header |-> <<77>>,
         sections |-> << [name |-> 1, va |-> 1, vsize |-> 3, perms |-> PermRW,
                          content |-> <<51, 52, 53>>],
                         [name |-> 2, va |-> 4, vsize |-> 2, perms |-> PermRX,
                          content |-> <<8, 7>>] >>,
         imports |-> << [name |-> <<2>>,
                         entries |-> << [name |-> 1, iat |-> 1],
                                        [name |-> 2, iat |-> 2] >>],
                        [name |-> <<4>>,
                         entries |-> << [name |-> 1, iat |-> 3] >>] >>,
         exports |-> << [name |-> 3, rva |-> 4] >>,
         relocations |-> << [va |-> 4,
                             entries |-> << [type |-> "HIGHLOW", position |-> 0],
                                            [type |-> "ABS", position |-> 1] >>] >>]
    [] f = FileL ->
        [imagebase |-> 4, virtual_size |-> 3, sizeof_headers |-> 1,
         is_pie |-> TRUE, dynamic_base |-> TRUE,
         high_entropy |-> FALSE, is_dll |-> TRUE,
         header |-> <<78>>,
         sections |-> << [name |-> 1, va |-> 1, vsize |-> 2, perms |-> PermRWX,
                          content |-> <<54, 6>>] >>,
         imports |-> << [name |-> <<1>>,
                         entries |-> << [name |-> 3, iat |-> 1] >>] >>,
         exports |-> << [name |-> 1, rva |-> 2] >>,
         relocations |-> << [va |-> 1,
                             entries |-> << [type |-> "DIR64", position |-> 1] >>] >>]
    [] f = FileM ->
        [imagebase |-> 12, virtual_size |-> 2, sizeof_headers |-> 1,
         is_pie |-> TRUE, dynamic_base |-> TRUE,
         high_entropy |-> TRUE, is_dll |-> TRUE,
         header |-> <<79>>,
         sections |-> << [name |-> 1, va |-> 1, vsize |-> 1, perms |-> PermR,
                          content |-> <<55>>] >>,
         imports |-> << >>,
         exports |-> << [name |-> 1, rva |-> 1] >>,
         relocations |-> << >>]
    [] OTHER ->
        [imagebase |-> 4, virtual_size |-> 2, sizeof_headers |-> 1,
         is_pie |-> FALSE, dynamic_base |-> FALSE,
         high_entropy |-> FALSE, is_dll |-> FALSE,
         header |-> <<80>>,
         sections |-> << [name |-> 1, va |-> 1, vsize |-> 1, perms |-> PermRX,
                          content |-> <<56>>] >>,
         imports |-> << >>,
         exports |-> << >>,
         relocations |-> << >>]

\* PELoaderInfo(file, base, prefer_aslr)
PELoaderInfo(file, base, prefer_aslr) ==
  [file |-> file, base |-> base, prefer_aslr |-> prefer_aslr]

\* the load requests the environment submits
Requests == { PELoaderInfo(FileA, NoBase, FALSE),
              PELoaderInfo(FileA, UserBase, TRUE),
              PELoaderInfo(FileL, NoBase, FALSE),
              PELoaderInfo(FileL, UserBase, FALSE),
              PELoaderInfo(FileM, NoBase, TRUE),
              PELoaderInfo(FileN, UserBase, FALSE) }

\* the requests pipeline operations are called with directly
DirectRequests == { PELoaderInfo(FileA, NoBase, FALSE) }

\* Python's "needle in hay" on strings
Contains(hay, needle) ==
  \E i \in 0..(Len(hay) - Len(needle)) : SubSeq(hay, i + 1, i + Len(needle)) = needle

\* ------------------------------------------------------ memory subsystem
\* a segment the memory subsystem holds before the loader runs
ExtSegment == [name |-> [kind |-> "EXT", file |-> NoFile, sec |-> 0],
               start |-> 5, size |-> 1, perms |-> PermRW]

\* emu.mem.is_mapped(address, size): the range lies inside one segment
is_mapped(segs, address, size) ==
  \E s \in segs : s.start <= address /\ address + size <= s.start + s.size

\* Segment.overlaps(AddressRange(address, size))
overlaps(s, address, size) ==
  s.start < address + size /\ address < s.start + s.size

\* emu.mem.read_word / write_word on a sparse word store
read_word(m, a) == IF a \in DOMAIN m THEN m[a] ELSE 0

write_word(m, a, v) == [x \in DOMAIN m \cup {a} |-> IF x = a THEN v ELSE m[x]]

\* writing a byte stream at the start of a segment
write_stream(m, start, ws) ==
  [x \in DOMAIN m \cup {start + k - 1 : k \in 1..Len(ws)} |->
      IF x - start + 1 \in 1..Len(ws) THEN ws[x - start + 1] ELSE m[x]]

\* ----------------------------------------- plugins registered in settings
\* The registry of one backing service: emu.settings (plugin names, in
\* registration order), each instance's emu and _interact_queue, and the
\* memory subsystem the instances act on.
PluginNames == {"Segment", "StreamMapper", "EnforceMemory"}

\* StreamMapper's handler: create the segment and write the stream into it
StreamMapperHandle(w, info) ==
  [w EXCEPT !.segments = @ \cup {info.segment},
            !.mem = write_stream(@, info.segment.start, info.words)]

\* Plugin._handle_interact of a registered instance, one object
PluginHandle(w, i, info) ==
  IF w.settings[i] = "StreamMapper" THEN StreamMapperHandle(w, info) ELSE w

RECURSIVE PluginHandleAll(_, _, _)
PluginHandleAll(w, i, infos) ==
  IF infos = << >> THEN w
  ELSE PluginHandleAll(PluginHandle(w, i, Head(infos)), i, Tail(infos))

\* Plugin.interact of a registered instance
PluginInteract(w, i, info) ==
  IF w.plugEmu[i] # NoEmu
    THEN PluginHandle(w, i, info)
    ELSE [w EXCEPT !.plugQueue[i] = Append(@, info)]

\* Plugin.prepare of a registered instance
PluginPrepare(w, i, e) ==
  IF w.plugEmu[i] # NoEmu
    THEN w
    ELSE LET w1 == [w EXCEPT !.plugEmu[i] = e]
             w2 == PluginHandleAll(w1, i, w.plugQueue[i])
         IN  [w2 EXCEPT !.plugQueue[i] = << >>]

\* Plugin.get_all_loaded: the instances whose plugin_name matches, in order
get_all_loaded(settings, name) ==
  SelectSeq([i \in DOMAIN settings |-> i], LAMBDA i : settings[i] = name)

\* require without the search of the registered instances
require_always_new(w, name, e) ==
  [w |-> [w EXCEPT !.settings = Append(@, name),
                   !.plugEmu = Append(@, e),
                   !.plugQueue = Append(@, << >>)],
   plug |-> Len(w.settings) + 1, made |-> TRUE]

\* require registering the new instance without preparing it
require_unprepared_new(w, name, e) ==
  LET found == get_all_loaded(w.settings, name) IN
  IF found # << >>
    THEN [w |-> w, plug |-> Head(found), made |-> FALSE]
    ELSE [w |-> [w EXCEPT !.settings = Append(@, name),
                          !.plugEmu = Append(@, NoEmu),
                          !.plugQueue = Append(@, << >>)],
          plug |-> Len(w.settings) + 1, made |-> TRUE]

\* Plugin.require: first match, else construct, register and prepare
require(w, name, e) ==
  LET found == get_all_loaded(w.settings, name) IN
  IF found # << >>
    THEN [w |-> w, plug |-> Head(found), made |-> FALSE]
    ELSE [w |-> [w EXCEPT !.settings = Append(@, name),
                          !.plugEmu = Append(@, e),
                          !.plugQueue = Append(@, << >>)],
          plug |-> Len(w.settings) + 1, made |-> TRUE]

\* ----------------------------------------------------- AddressSpacePlanner
\* PELoader.is_base_ok (the loader is ready)
is_base_ok(segs, address, pe) ==
  /\ ~is_mapped(segs, address, pe.virtual_size)
  /\ \A s \in segs : ~overlaps(s, address, pe.virtual_size)

bits_amount(high_entropy, is_dll) ==
  IF high_entropy /\ is_dll THEN BitsHighDll
  ELSE IF high_entropy /\ ~is_dll THEN BitsHighExe
  ELSE IF ~high_entropy /\ is_dll THEN BitsLowDll
  ELSE BitsLowExe

\* the values of random.getrandbits(bits) the model draws
RandBits(bits) == {0, 1, 2^bits - 1}

\* calculate_aslr adding the high-range floor whatever the image kind
calculate_aslr_floor_always(high_entropy, is_dll, r) ==
  AslrFloor + r

\* calculate_aslr, for the drawn value r; (r << 16) bytes are r units
calculate_aslr(high_entropy, is_dll, r) ==
  (IF high_entropy /\ is_dll THEN AslrFloor ELSE 0) + r

\* the retry loop of _pick_base and the test that follows it
RECURSIVE aslr_loop(_, _, _, _)
aslr_loop(segs, pe, base, retry) ==
  IF is_base_ok(segs, base, pe)
    THEN {[ok |-> TRUE, base |-> base]}
    ELSE IF retry > 0
      THEN UNION { aslr_loop(segs, pe,
                             calculate_aslr(pe.high_entropy, pe.is_dll, r),
                             retry - 1)
                   : r \in RandBits(bits_amount(pe.high_entropy, pe.is_dll)) }
      ELSE {[ok |-> FALSE, base |-> NoBase]}

\* _pick_base trying the preferred base before the user's base
pick_base_preferred_first(segs, obj, pe) ==
  LET prefer_aslr == obj.prefer_aslr /\ pe.dynamic_base IN
  IF ~prefer_aslr /\ is_base_ok(segs, pe.imagebase, pe)
    THEN {[ok |-> TRUE, base |-> pe.imagebase]}
    ELSE IF obj.base # NoBase /\ pe.is_pie /\ is_base_ok(segs, obj.base, pe)
      THEN {[ok |-> TRUE, base |-> obj.base]}
      ELSE IF pe.is_pie
        THEN UNION { aslr_loop(segs, pe,
                               calculate_aslr(pe.high_entropy, pe.is_dll, r)
                                 + pe.imagebase,
                               AslrRetries)
                     : r \in RandBits(bits_amount(pe.high_entropy, pe.is_dll)) }
        ELSE {[ok |-> FALSE, base |-> NoBase]}

\* PELoader._pick_base: the set of outcomes (a base, or HSPluginBadStateError)
pick_base(segs, obj, pe) ==
  IF obj.base # NoBase /\ pe.is_pie /\ is_base_ok(segs, obj.base, pe)
    THEN {[ok |-> TRUE, base |-> obj.base]}
    ELSE
      LET prefer_aslr == obj.prefer_aslr /\ pe.dynamic_base IN
      IF ~prefer_aslr /\ is_base_ok(segs, pe.imagebase, pe)
        THEN {[ok |-> TRUE, base |-> pe.imagebase]}
        ELSE IF pe.is_pie
          THEN UNION { aslr_loop(segs, pe,
                                 calculate_aslr(pe.high_entropy, pe.is_dll, r)
                                   + pe.imagebase,
                                 AslrRetries)
                       : r \in RandBits(bits_amount(pe.high_entropy, pe.is_dll)) }
          ELSE {[ok |-> FALSE, base |-> NoBase]}

\* ------------------------------------------------------------ SegmentMapper
HeaderName(f) == [kind |-> "HEADER", file |-> f, sec |-> 0]
SectionName(f, sec) == [kind |-> "SECTION", file |-> f, sec |-> sec]

\* PELoader._map_headers
map_headers(w, sm, f, base) ==
  PluginInteract(w, sm,
    [segment |-> [name |-> HeaderName(f), start |-> base,
                  size |-> PE(f).sizeof_headers, perms |-> PermR],
     words |-> PE(f).header])

\* PELoader._map_section: state after it, and what EnforceMemory is handed
map_section(st, sm, enf, e, f, base, section) ==
  LET permission == IF enf # NoPlugin THEN PermRWX ELSE section.perms
      name == SectionName(f, section.name)
      w1 == PluginInteract(st.w, sm,
              [segment |-> [name |-> name, start |-> base + section.va,
                            size |-> section.vsize, perms |-> permission],
               words |-> section.content])
  IN  IF enf # NoPlugin
        THEN [w |-> PluginPrepare(w1, sm, e),
              enforced |-> st.enforced \cup {[name |-> name, perms |-> section.perms]}]
        ELSE [w |-> w1, enforced |-> st.enforced]

RECURSIVE map_sections(_, _, _, _, _, _, _)
map_sections(st, sm, enf, e, f, base, sections) ==
  IF sections = << >> THEN st
  ELSE map_sections(map_section(st, sm, enf, e, f, base, Head(sections)),
                    sm, enf, e, f, base, Tail(sections))

\* ------------------------------------------------------------- mapped images
LoadedKeys(ld) == [i \in DOMAIN ld |-> ld[i].info.file]
IsLoaded(ld, f) == \E i \in DOMAIN ld : ld[i].info.file = f
Mapped(ld, f) == ld[CHOOSE i \in DOMAIN ld : ld[i].info.file = f]

\* ------------------------------------------------------------ ImportResolver
\* first item of the queue whose path contains the dependency name (0: none)
QueueMatch(q, depname) ==
  LET hits == {i \in DOMAIN q : Contains(q[i].file, depname)} IN
  IF hits = {} THEN 0 ELSE CHOOSE i \in hits : \A j \in hits : i <= j

\* the exports dictionary _load_iat builds: the last entry of a name wins
ExportOf(pe, name) ==
  LET hits == {i \in DOMAIN pe.exports : pe.exports[i].name = name} IN
  IF hits = {} THEN NoBase
  ELSE pe.exports[CHOOSE i \in hits : \A j \in hits : j <= i].rva

\* _load_iat writing the export's relative address, without the library base
RECURSIVE load_iat_rva_only(_, _, _, _, _)
load_iat_rva_only(m, my_base, entries, libpe, libbase) ==
  IF entries = << >> THEN m
  ELSE LET entry == Head(entries)
           rva == ExportOf(libpe, entry.name)
           m1 == IF rva = NoBase THEN m
                 ELSE write_word(m, my_base + entry.iat, rva)
       IN  load_iat_rva_only(m1, my_base, Tail(entries), libpe, libbase)

\* _load_iat clearing the slot of a symbol the library does not export
RECURSIVE load_iat_clears_missing(_, _, _, _, _)
load_iat_clears_missing(m, my_base, entries, libpe, libbase) ==
  IF entries = << >> THEN m
  ELSE LET entry == Head(entries)
           rva == ExportOf(libpe, entry.name)
           m1 == IF rva = NoBase THEN write_word(m, my_base + entry.iat, 0)
                 ELSE write_word(m, my_base + entry.iat, libbase + rva)
       IN  load_iat_clears_missing(m1, my_base, Tail(entries), libpe, libbase)

\* PELoader._load_iat, entry by entry
RECURSIVE load_iat(_, _, _, _, _)
load_iat(m, my_base, entries, libpe, libbase) ==
  IF entries = << >> THEN m
  ELSE LET entry == Head(entries)
           rva == ExportOf(libpe, entry.name)
           m1 == IF rva = NoBase THEN m
                 ELSE write_word(m, my_base + entry.iat, libbase + rva)
       IN  load_iat(m1, my_base, Tail(entries), libpe, libbase)

\* ----------------------------------------------------------------- Relocator
\* the block/entry pairs of a file's relocations that are not ABS
RelocTargetsOf(f) ==
  {<<b, k>> \in (DOMAIN PE(f).relocations) \X (1..2) :
     /\ k \in DOMAIN PE(f).relocations[b].entries
     /\ PE(f).relocations[b].entries[k].type # "ABS"}

\* relocation with the delta applied the wrong way round
RECURSIVE reloc_entries_negated(_, _, _, _, _)
reloc_entries_negated(m, base, imagebase, va, entries) ==
  IF entries = << >> THEN m
  ELSE LET entry == Head(entries)
           reloc_offset == base + va + entry.position
           old_val == read_word(m, reloc_offset)
           m1 == IF entry.type = "ABS" THEN m
                 ELSE write_word(m, reloc_offset, old_val + imagebase - base)
       IN  reloc_entries_negated(m1, base, imagebase, va, Tail(entries))

RECURSIVE reloc_entries(_, _, _, _, _)
reloc_entries(m, base, imagebase, va, entries) ==
  IF entries = << >> THEN m
  ELSE LET entry == Head(entries)
           reloc_offset == base + va + entry.position
           old_val == read_word(m, reloc_offset)
           m1 == IF entry.type = "ABS" THEN m
                 ELSE write_word(m, reloc_offset, old_val - imagebase + base)
       IN  reloc_entries(m1, base, imagebase, va, Tail(entries))

\* PELoader._handle_reloc
RECURSIVE handle_reloc(_, _, _, _)
handle_reloc(m, base, imagebase, relocs) ==
  IF relocs = << >> THEN m
  ELSE handle_reloc(reloc_entries(m, base, imagebase, Head(relocs).va,
                                  Head(relocs).entries),
                    base, imagebase, Tail(relocs))

\* ===================================================================== state
VARIABLES
  emu,          \* PELoader.emu (NoEmu while Unattached)
  queue,        \* PELoader._interact_queue
  loaded,       \* PELoader._loaded, in insertion order: <<[info, base]>>
  segPlug,      \* PELoader._segment_plugin (index into settings)
  smPlug,       \* PELoader._stream_mapper
  enfPlug,      \* PELoader._enforce_plugin
  settings,     \* emu.settings: the names of the registered plugin instances
  plugEmu,      \* emu of each registered instance
  plugQueue,    \* _interact_queue of each registered instance
  segments,     \* emu.mem.segments
  mem,          \* the words of emu.mem
  enforced,     \* EnforceMemoryInfo objects handed to the EnforceMemory plugin
  stack,        \* the _handle invocations in progress, innermost last
  pending,      \* objects of the running _handle_interact call not yet handled
  flushing,     \* prepare is between its dispatch and _interact_queue.clear()
  err,          \* the exception the last top-level call propagated, if any
  ncalls,       \* top-level calls made
  nreqs,        \* interact calls made
  lastOp,       \* the last top-level call
  dispatched,   \* history: objects passed to _handle_interact, in order
  submitted,    \* history: objects passed to interact, in order
  constructed,  \* history: plugin names require has constructed
  returned,     \* history: the <<name, instance>> results of require, in order
  relocated     \* history: files whose _handle_reloc ran, in order

loaderVars == <<emu, queue, loaded, segPlug, smPlug, enfPlug>>
worldVars == <<settings, plugEmu, plugQueue, segments, mem>>
runVars == <<stack, pending, flushing>>
histVars == <<dispatched, submitted, constructed, returned, relocated>>
vars == <<emu, queue, loaded, segPlug, smPlug, enfPlug, settings, plugEmu,
          plugQueue, segments, mem, enforced, stack, pending, flushing, err,
          ncalls, nreqs, lastOp, dispatched, submitted, constructed, returned,
          relocated>>

World == [settings |-> settings, plugEmu |-> plugEmu, plugQueue |-> plugQueue,
          segments |-> segments, mem |-> mem]

SetWorld(w) ==
  /\ settings' = w.settings
  /\ plugEmu' = w.plugEmu
  /\ plugQueue' = w.plugQueue
  /\ segments' = w.segments
  /\ mem' = w.mem

\* no exception, and HSPluginBadStateError(f'Unable to map PE {obj}')
NoErr == [kind |-> "none", file |-> NoFile]
BadPlacement(f) == [kind |-> "BadPlacement", file |-> f]

\* HSPluginInteractNotReadyError, and the errors of Python itself
NotReady == [kind |-> "NotReady", file |-> NoFile]
KeyError(f) == [kind |-> "KeyError", file |-> f]
AttributeError == [kind |-> "AttributeError", file |-> NoFile]

\* no call is running
Idle == stack = << >> /\ pending = << >> /\ ~flushing

\* the registries a backing service may start with
InitSettings == { << >>,
                  <<"StreamMapper">>,
                  <<"StreamMapper", "EnforceMemory">>,
                  <<"StreamMapper", "StreamMapper">> }

Init ==
  /\ emu = NoEmu
  /\ queue = << >>
  /\ loaded = << >>
  /\ segPlug = NoPlugin
  /\ smPlug = NoPlugin
  /\ enfPlug = NoPlugin
  /\ settings \in InitSettings
  /\ plugEmu = [i \in DOMAIN settings |-> NoEmu]
  /\ plugQueue = [i \in DOMAIN settings |-> << >>]
  /\ segments \in IF settings = << >> THEN {{}, {ExtSegment}} ELSE {{}}
  /\ mem = << >>
  /\ enforced = {}
  /\ stack = << >>
  /\ pending = << >>
  /\ flushing = FALSE
  /\ err = NoErr
  /\ ncalls = 0
  /\ nreqs = 0
  /\ lastOp = "none"
  /\ dispatched = << >>
  /\ submitted = << >>
  /\ constructed = << >>
  /\ returned = << >>
  /\ relocated = << >>

\* ------------------------------------------------------------ the pipeline
\* the frame of _handle(obj) about to resolve its dependency number d
StartDep(ld, obj, d) ==
  [obj |-> obj, dep |-> d,
   snap |-> IF d <= Len(PE(obj.file).imports) THEN LoadedKeys(ld) ELSE << >>,
   si |-> 1, item |-> NoFile]

\* _handle without the early return for a file that is already mapped
handle_enter_remaps(ld, w, enf, stk, obj) ==
  { IF o.ok
      THEN LET ld1 == Append(ld, [info |-> obj, base |-> o.base])
               w1 == map_headers(w, smPlug, obj.file, o.base)
               st == map_sections([w |-> w1, enforced |-> enf], smPlug, enfPlug,
                                  emu, obj.file, o.base, PE(obj.file).sections)
           IN  [loaded |-> ld1, w |-> st.w, enforced |-> st.enforced,
                stack |-> Append(stk, StartDep(ld1, obj, 1)), raised |-> FALSE,
                file |-> obj.file]
      ELSE [loaded |-> ld, w |-> w, enforced |-> enf, stack |-> << >>,
            raised |-> TRUE, file |-> obj.file]
    : o \in pick_base(w.segments, obj, PE(obj.file)) }

\* PELoader._handle up to the end of the section loop: the early return, or
\* _pick_base, the _loaded entry, _map_headers and every _map_section; the
\* frame pushed on stk then runs _handle_iats and _handle_reloc
handle_enter(ld, w, enf, stk, obj) ==
  IF IsLoaded(ld, obj.file)
    THEN {[loaded |-> ld, w |-> w, enforced |-> enf, stack |-> stk,
           raised |-> FALSE, file |-> obj.file]}
    ELSE
      { IF o.ok
          THEN LET ld1 == Append(ld, [info |-> obj, base |-> o.base])
                   w1 == map_headers(w, smPlug, obj.file, o.base)
                   st == map_sections([w |-> w1, enforced |-> enf], smPlug, enfPlug,
                                      emu, obj.file, o.base, PE(obj.file).sections)
               IN  [loaded |-> ld1, w |-> st.w, enforced |-> st.enforced,
                    stack |-> Append(stk, StartDep(ld1, obj, 1)), raised |-> FALSE,
                    file |-> obj.file]
          ELSE [loaded |-> ld, w |-> w, enforced |-> enf, stack |-> << >>,
                raised |-> TRUE, file |-> obj.file]
        : o \in pick_base(w.segments, obj, PE(obj.file)) }

\* the effect of one outcome of handle_enter; an exception unwinds every frame
\* and leaves prepare before _interact_queue.clear()
ApplyEnter(out, rest) ==
  /\ loaded' = out.loaded
  /\ SetWorld(out.w)
  /\ enforced' = out.enforced
  /\ stack' = out.stack
  /\ IF out.raised
       THEN /\ err' = BadPlacement(out.file)
            /\ pending' = << >>
            /\ flushing' = FALSE
       ELSE /\ err' = err
            /\ pending' = rest
            /\ flushing' = flushing

Top == stack[Len(stack)]
ReplaceTop(stk, fr) == [stk EXCEPT ![Len(stk)] = fr]
Pop(stk) == SubSeq(stk, 1, Len(stk) - 1)

\* _handle_interact of the loader takes the next object of the call
HandleNext ==
  /\ stack = << >>
  /\ pending # << >>
  /\ \E out \in handle_enter(loaded, World, enforced, << >>, Head(pending)) :
       ApplyEnter(out, Tail(pending))
  /\ UNCHANGED <<emu, queue, segPlug, smPlug, enfPlug, ncalls, nreqs, lastOp, histVars>>

\* _handle_iats: _load_iat for the located library, then the next dependency
IatResolve(lib) ==
  LET me == Top.obj.file
      dependency == PE(me).imports[Top.dep]
  IN  /\ mem' = load_iat(mem, Mapped(loaded, me).base, dependency.entries,
                         PE(lib), Mapped(loaded, lib).base)
      /\ stack' = ReplaceTop(stack, StartDep(loaded, Top.obj, Top.dep + 1))
      /\ UNCHANGED <<loaded, settings, plugEmu, plugQueue, segments, enforced,
                     pending, flushing, err>>

\* _handle_iats: the dependency was not found, warn and continue
IatSkip ==
  /\ stack' = ReplaceTop(stack, StartDep(loaded, Top.obj, Top.dep + 1))
  /\ UNCHANGED <<loaded, worldVars, enforced, pending, flushing, err>>

\* _handle_iats: one iteration of "for loaded in self._loaded.copy()", or the
\* else clause of that loop
IatStep ==
  /\ stack # << >>
  /\ Top.dep <= Len(PE(Top.obj.file).imports)
  /\ LET dependency == PE(Top.obj.file).imports[Top.dep] IN
     IF Top.si <= Len(Top.snap)
       THEN IF Contains(Top.snap[Top.si], dependency.name)
              THEN IatResolve(Top.snap[Top.si])
              ELSE LET qi == QueueMatch(queue, dependency.name) IN
                   IF qi = 0
                     THEN /\ stack' = ReplaceTop(stack, [Top EXCEPT !.si = @ + 1])
                          /\ UNCHANGED <<loaded, worldVars, enforced, pending,
                                         flushing, err>>
                     ELSE \E out \in handle_enter(loaded, World, enforced,
                                       ReplaceTop(stack,
                                         [Top EXCEPT !.si = @ + 1,
                                                     !.item = queue[qi].file]),
                                       queue[qi]) :
                            ApplyEnter(out, pending)
       ELSE IF Top.item = NoFile THEN IatSkip ELSE IatResolve(Top.item)
  /\ UNCHANGED <<emu, queue, segPlug, smPlug, enfPlug, ncalls, nreqs, lastOp, histVars>>

\* _handle_reloc, then _handle returns
RelocStep ==
  /\ stack # << >>
  /\ Top.dep > Len(PE(Top.obj.file).imports)
  /\ LET f == Top.obj.file IN
       mem' = handle_reloc(mem, Mapped(loaded, f).base, PE(f).imagebase,
                           PE(f).relocations)
  /\ stack' = Pop(stack)
  /\ relocated' = Append(relocated, Top.obj.file)
  /\ UNCHANGED <<loaderVars, settings, plugEmu, plugQueue, segments, enforced,
                 pending, flushing, err, ncalls, nreqs, lastOp, dispatched,
                 submitted, constructed, returned>>

\* Plugin.prepare, after the dispatch of the queue returned: queue.clear()
FlushDone ==
  /\ flushing
  /\ stack = << >>
  /\ pending = << >>
  /\ queue' = << >>
  /\ flushing' = FALSE
  /\ UNCHANGED <<emu, loaded, segPlug, smPlug, enfPlug, worldVars, enforced,
                 stack, pending, err, ncalls, nreqs, lastOp, histVars>>

\* ------------------------------------------------------- top-level calls
\* Plugin.interact on the loader
Interact(obj) ==
  /\ Idle
  /\ ncalls < MaxCalls
  /\ nreqs < MaxReqs
  /\ ncalls' = ncalls + 1
  /\ nreqs' = nreqs + 1
  /\ lastOp' = "interact"
  /\ err' = NoErr
  /\ submitted' = Append(submitted, obj)
  /\ IF emu # NoEmu
       THEN /\ pending' = <<obj>>
            /\ dispatched' = Append(dispatched, obj)
            /\ queue' = queue
       ELSE /\ queue' = Append(queue, obj)
            /\ UNCHANGED <<pending, dispatched>>
  /\ UNCHANGED <<emu, loaded, segPlug, smPlug, enfPlug, worldVars, enforced,
                 stack, flushing, constructed, returned, relocated>>

\* PELoader._prepare: acquire the collaborators
loader_prepare(w, e) ==
  LET r1 == require(w, "Segment", e)
      r2 == require(r1.w, "StreamMapper", e)
      enfs == get_all_loaded(r2.w.settings, "EnforceMemory")
  IN  [w |-> IF enfs # << >> THEN PluginPrepare(r2.w, r2.plug, e) ELSE r2.w,
       seg |-> r1.plug, sm |-> r2.plug,
       enf |-> IF enfs # << >> THEN Head(enfs) ELSE NoPlugin,
       made |-> (IF r1.made THEN <<"Segment">> ELSE << >>)
                \o (IF r2.made THEN <<"StreamMapper">> ELSE << >>)]

\* prepare without the "if self.ready: return" guard
PrepareUnguarded(e) ==
  /\ Idle
  /\ ncalls < MaxCalls
  /\ emu = NoEmu => e = MainEmu
  /\ ncalls' = ncalls + 1
  /\ lastOp' = IF emu # NoEmu THEN "prepare_again" ELSE "prepare"
  /\ err' = NoErr
  /\ LET p == loader_prepare(World, e) IN
       /\ emu' = e
       /\ segPlug' = p.seg
       /\ smPlug' = p.sm
       /\ enfPlug' = p.enf
       /\ SetWorld(p.w)
       /\ pending' = queue
       /\ dispatched' = dispatched \o queue
       /\ flushing' = TRUE
       /\ constructed' = constructed \o p.made
       /\ returned' = returned \o << <<"Segment", p.seg>>, <<"StreamMapper", p.sm>> >>
       /\ UNCHANGED <<queue, loaded, stack, submitted, relocated>>
  /\ UNCHANGED <<enforced, nreqs>>

\* Plugin.prepare on the loader
Prepare(e) ==
  /\ Idle
  /\ ncalls < MaxCalls
  /\ emu = NoEmu => e = MainEmu
  /\ ncalls' = ncalls + 1
  /\ lastOp' = IF emu # NoEmu THEN "prepare_again" ELSE "prepare"
  /\ err' = NoErr
  /\ IF emu # NoEmu
       THEN UNCHANGED <<loaderVars, worldVars, runVars, histVars>>
       ELSE LET p == loader_prepare(World, e) IN
            /\ emu' = e
            /\ segPlug' = p.seg
            /\ smPlug' = p.sm
            /\ enfPlug' = p.enf
            /\ SetWorld(p.w)
            /\ pending' = queue
            /\ dispatched' = dispatched \o queue
            /\ flushing' = TRUE
            /\ constructed' = constructed \o p.made
            /\ returned' = returned \o << <<"Segment", p.seg>>, <<"StreamMapper", p.sm>> >>
            /\ UNCHANGED <<queue, loaded, stack, submitted, relocated>>
  /\ UNCHANGED <<enforced, nreqs>>

\* the engine prepares a plugin instance registered in settings
EnginePrepare(i) ==
  /\ Idle
  /\ ncalls < MaxCalls
  /\ i \in DOMAIN settings
  /\ ncalls' = ncalls + 1
  /\ lastOp' = "engine_prepare"
  /\ err' = NoErr
  /\ SetWorld(PluginPrepare(World, i, MainEmu))
  /\ UNCHANGED <<loaderVars, enforced, runVars, nreqs, histVars>>

\* Plugin.require called by any plugin of the backing service
Require(name) ==
  /\ Idle
  /\ ncalls < MaxCalls
  /\ ncalls' = ncalls + 1
  /\ lastOp' = "require"
  /\ err' = NoErr
  /\ LET r == require(World, name, MainEmu) IN
       /\ SetWorld(r.w)
       /\ constructed' = IF r.made THEN Append(constructed, name) ELSE constructed
       /\ returned' = Append(returned, <<name, r.plug>>)
  /\ UNCHANGED <<loaderVars, enforced, runVars, nreqs, dispatched, submitted,
                 relocated>>

\* the operations of the pipeline, as methods of the loader
PipelineOps == {"is_base_ok", "_pick_base", "_map_headers", "_map_section",
                "_handle_iats", "_load_iat", "_handle_reloc"}

\* what a pipeline operation called for file f does on a loader that is not
\* ready: all but _handle_reloc start with
\* "if not self.ready: raise HSPluginInteractNotReadyError"; _handle_reloc
\* starts with self._loaded[pefile.file] and reaches self.emu.mem at its
\* first entry that is not ABS
unready_call(op, ld, f) ==
  IF op # "_handle_reloc" THEN NotReady
  ELSE IF ~IsLoaded(ld, f) THEN KeyError(f)
  ELSE IF RelocTargetsOf(f) # {} THEN AttributeError
  ELSE NoErr

\* a pipeline operation called directly on the loader while it is Unattached
\* (on an attached loader the operations are called by _handle)
DirectCall(op, obj) ==
  /\ Idle
  /\ emu = NoEmu
  /\ lastOp' = op
  /\ err' = unready_call(op, loaded, obj.file)
  /\ UNCHANGED <<loaderVars, worldVars, enforced, runVars, ncalls, nreqs, histVars>>

Next ==
  \/ \E obj \in Requests : Interact(obj)
  \/ \E op \in PipelineOps : \E obj \in DirectRequests : DirectCall(op, obj)
  \/ \E e \in Emus : Prepare(e)
  \/ \E i \in 1..3 : EnginePrepare(i)
  \/ \E name \in {"StreamMapper"} : Require(name)
  \/ HandleNext
  \/ IatStep
  \/ RelocStep
  \/ FlushDone

Spec == Init /\ [][Next]_vars

\* ==================================================================== claims
LoadedFiles == {loaded[i].info.file : i \in DOMAIN loaded}
BaseOf(f) == Mapped(loaded, f).base

\* the address range [base, base + virtualSize) of a mapped image
RangesDisjoint(x, y) ==
  \/ x.base + PE(x.info.file).virtual_size <= y.base
  \/ y.base + PE(y.info.file).virtual_size <= x.base

\* C1: any two distinct images of the mapped-image table have disjoint
\* address ranges [base, base + virtualSize), whether the StreamMapper binds
\* segments at once or defers them.
C1_RangesNeverOverlap ==
  \A i, j \in DOMAIN loaded : i # j => RangesDisjoint(loaded[i], loaded[j])

\* the files of the requests waiting in the loader's queue
QueuedFiles == {queue[i].file : i \in DOMAIN queue}

\* the request whose _handle the next step enters, if it enters one
Entering ==
  IF stack = << >>
    THEN IF pending # << >> THEN {Head(pending)} ELSE {}
    ELSE IF /\ Top.dep <= Len(PE(Top.obj.file).imports)
            /\ Top.si <= Len(Top.snap)
            /\ ~Contains(Top.snap[Top.si], PE(Top.obj.file).imports[Top.dep].name)
            /\ QueueMatch(queue, PE(Top.obj.file).imports[Top.dep].name) # 0
           THEN {queue[QueueMatch(queue, PE(Top.obj.file).imports[Top.dep].name)]}
           ELSE {}

\* segment descriptors handed to a StreamMapper for file f, bound or queued
SubmittedFor(f) ==
  {s \in segments : s.name.file = f}
    \cup UNION { {plugQueue[i][k].segment : k \in {n \in DOMAIN plugQueue[i] :
                      plugQueue[i][n].segment.name.file = f}}
                 : i \in DOMAIN plugQueue }

\* C2: handling a request whose file is already in the mapped-image table is
\* a no-op (same entry, no segment created or queued, no word written), even
\* when the request differs in base or randomization flag; and no step ever
\* removes an entry or changes its base.
C2_RepeatedRequestIsNoOp ==
  [][ /\ \A i \in DOMAIN loaded : i \in DOMAIN loaded' /\ loaded'[i] = loaded[i]
      /\ \A obj \in Entering :
           IsLoaded(loaded, obj.file) =>
             /\ loaded' = loaded
             /\ segments' = segments
             /\ plugQueue' = plugQueue
             /\ mem' = mem
             /\ enforced' = enforced
             /\ err' = err
             /\ Len(stack') = Len(stack) ]_vars

\* a request was handled whose file had been mapped by a different request
C2_Witness ==
  /\ Idle
  /\ err = NoErr
  /\ emu # NoEmu
  /\ \E i \in DOMAIN dispatched :
       /\ IsLoaded(loaded, dispatched[i].file)
       /\ Mapped(loaded, dispatched[i].file).info # dispatched[i]
       /\ Mapped(loaded, dispatched[i].file).info.base # dispatched[i].base

\* C3: nothing is dispatched while Unattached; the first prepare dispatches
\* the whole queue in arrival order and leaves the queue empty; objects
\* submitted while Attached are dispatched at once and never queued.
C3_QueueThenFlush ==
  /\ emu = NoEmu => (dispatched = << >> /\ queue = submitted)
  /\ emu # NoEmu => dispatched = submitted
  /\ (emu # NoEmu /\ ~flushing) => queue = << >>

\* C4: once ready, always ready with the same backing service; a further
\* prepare call changes neither the loader, its queue, the registered
\* plugins and memory, nor does it invoke the handler.
C4_AttachIsOneShot ==
  [][ /\ emu # NoEmu => emu' = emu
      /\ (emu # NoEmu /\ lastOp' = "prepare_again" /\ ncalls' = ncalls + 1) =>
           UNCHANGED <<loaderVars, worldVars, enforced, runVars, dispatched>> ]_vars

\* prepare was called with another backing service on an attached loader
\* that has mapped images
C4_Witness ==
  /\ lastOp = "prepare_again"
  /\ emu = MainEmu
  /\ loaded # << >>
  /\ Idle

C6_FixedBaseHonored ==
  [][ \A obj \in Entering :
        ( /\ ~IsLoaded(loaded, obj.file)
          /\ obj.base # NoBase
          /\ PE(obj.file).is_pie
          /\ is_base_ok(segments, obj.base, PE(obj.file)) ) =>
          /\ IsLoaded(loaded', obj.file)
          /\ Mapped(loaded', obj.file).base = obj.base ]_vars

\* an image asked for with prefer_aslr sits at its explicit base, which is
\* not its preferred base
C6_Witness ==
  \E i \in DOMAIN loaded :
    /\ loaded[i].info.base = UserBase
    /\ loaded[i].info.prefer_aslr
    /\ loaded[i].base = UserBase
    /\ PE(loaded[i].info.file).imagebase # UserBase

\* [address, address + size) meets a mapped image's range or a segment of
\* the memory subsystem
Occupied(address, size) ==
  \/ \E s \in segments : overlaps(s, address, size)
  \/ \E i \in DOMAIN loaded :
       /\ loaded[i].base < address + size
       /\ address < loaded[i].base + PE(loaded[i].info.file).virtual_size

\* the failed image has no table entry and no segment bound or queued
NothingLeftOfFailedImage ==
  err.kind = "BadPlacement" =>
    /\ ~IsLoaded(loaded, err.file)
    /\ SubmittedFor(err.file) = {}

\* C7: loading a non-relocatable image whose preferred base is occupied
\* raises BadPlacement; and after a BadPlacement the failed image has no
\* entry in the mapped-image table and no header or section segment of it
\* was handed to the StreamMapper or registered in memory.
C7_SaturatedSpaceFails ==
  [][ /\ \A obj \in Entering :
           ( /\ ~IsLoaded(loaded, obj.file)
             /\ ~PE(obj.file).is_pie
             /\ Occupied(PE(obj.file).imagebase, PE(obj.file).virtual_size) ) =>
             err' = BadPlacement(obj.file)
      /\ NothingLeftOfFailedImage' ]_vars

\* ---------------------------------------------------- imports and relocation
\* _handle of the innermost frame is about to run _handle_reloc and return
Completing == stack # << >> /\ Top.dep > Len(PE(Top.obj.file).imports)

\* the innermost frame is inside _handle_iats
InIat == stack # << >> /\ Top.dep <= Len(PE(Top.obj.file).imports)

KnownFiles == LoadedFiles \cup QueuedFiles

\* the dependency's name is contained in Y's path and Y exports the symbol
ImportResolvedBy(dependency, entry, y) ==
  /\ Contains(y, dependency.name)
  /\ ExportOf(PE(y), entry.name) # NoBase

\* the dependency names the file Y itself and Y exports the symbol
ImportsFrom(dependency, entry, y) ==
  /\ dependency.name = y
  /\ ExportOf(PE(y), entry.name) # NoBase

ImportWordIsExport(x, entry, y) ==
  /\ IsLoaded(loaded', y)
  /\ read_word(mem', BaseOf(x) + entry.iat)
       = Mapped(loaded', y).base + ExportOf(PE(y), entry.name)

\* C8 (as stated): if X imports S at offset O from dependency Y, Y exports S
\* at R and Y is mapped or pending when X is loaded, then when the load of X
\* completes Y is mapped and the word at X.base + O is Y.base + R.
C8_ImportResolved ==
  [][ Completing =>
        LET x == Top.obj.file IN
        \A d \in DOMAIN PE(x).imports :
          \A k \in DOMAIN PE(x).imports[d].entries :
            \A y \in KnownFiles :
              ImportsFrom(PE(x).imports[d], PE(x).imports[d].entries[k], y)
                => ImportWordIsExport(x, PE(x).imports[d].entries[k], y) ]_vars

\* C8 (amended): the same for the file Y whose path contains the
\* dependency's name, when no other mapped or pending file's path does.
C8_ImportResolvedUnambiguous ==
  [][ Completing =>
        LET x == Top.obj.file IN
        \A d \in DOMAIN PE(x).imports :
          \A k \in DOMAIN PE(x).imports[d].entries :
            \A y \in KnownFiles :
              ( /\ ImportResolvedBy(PE(x).imports[d], PE(x).imports[d].entries[k], y)
                /\ \A z \in KnownFiles :
                     Contains(z, PE(x).imports[d].name) => z = y )
                => ImportWordIsExport(x, PE(x).imports[d].entries[k], y) ]_vars

\* the app's load completed after pulling the library from the queue, and
\* its import slot holds the library's export
C8_Witness ==
  /\ Idle
  /\ err = NoErr
  /\ loaded # << >>
  /\ loaded[1].info.file = FileA
  /\ IsLoaded(loaded, FileL)
  /\ FileM \notin KnownFiles
  /\ \E i \in DOMAIN relocated : relocated[i] = FileA
  /\ read_word(mem, BaseOf(FileA) + 1) = BaseOf(FileL) + 2
  /\ BaseOf(FileL) # PE(FileL).imagebase

\* the dependency of the innermost frame is neither mapped nor pending
Unlocated(name) ==
  /\ \A f \in LoadedFiles : ~Contains(f, name)
  /\ QueueMatch(queue, name) = 0

\* the library the next step of _handle_iats hands to _load_iat, if any
UsedLib ==
  IF Top.si <= Len(Top.snap)
    THEN IF Contains(Top.snap[Top.si], PE(Top.obj.file).imports[Top.dep].name)
           THEN Top.snap[Top.si] ELSE NoFile
    ELSE Top.item

\* C9: a dependency that is neither mapped nor pending, or a symbol the
\* located library does not export, raises nothing and leaves the import
\* slot as it was; the other entries are still written and the pipeline goes
\* on with the next dependency.
C9_MissingImportsAreSkipped ==
  [][ InIat =>
        LET x == Top.obj.file
            dependency == PE(x).imports[Top.dep]
        IN  /\ Unlocated(dependency.name) =>
                 /\ err' = err
                 /\ mem' = mem
                 /\ loaded' = loaded
                 /\ Len(stack') = Len(stack)
                 /\ stack'[Len(stack)].obj = Top.obj
                 /\ stack'[Len(stack)].dep \in {Top.dep, Top.dep + 1}
                 /\ (Top.si > Len(Top.snap) => stack'[Len(stack)].dep = Top.dep + 1)
            /\ UsedLib # NoFile =>
                 /\ err' = err
                 /\ Len(stack') = Len(stack)
                 /\ stack'[Len(stack)].obj = Top.obj
                 /\ stack'[Len(stack)].dep = Top.dep + 1
                 /\ \A k \in DOMAIN dependency.entries :
                      LET entry == dependency.entries[k]
                          slot == BaseOf(x) + entry.iat
                      IN  IF ExportOf(PE(UsedLib), entry.name) = NoBase
                            THEN /\ read_word(mem', slot) = read_word(mem, slot)
                                 /\ (slot \in DOMAIN mem' <=> slot \in DOMAIN mem)
                            ELSE read_word(mem', slot)
                                   = BaseOf(UsedLib)
                                       + ExportOf(PE(UsedLib), entry.name) ]_vars

\* the app was loaded next to the library by a StreamMapper that binds at
\* once: the slot of the symbol the library lacks and the slot of the missing
\* dependency hold the file's words, the resolved slot and the relocated
\* word were patched
C9_Witness ==
  /\ Idle
  /\ err = NoErr
  /\ IsLoaded(loaded, FileA)
  /\ IsLoaded(loaded, FileL)
  /\ \E i \in DOMAIN relocated : relocated[i] = FileA
  /\ BaseOf(FileA) # PE(FileA).imagebase
  /\ read_word(mem, BaseOf(FileA) + 1) = BaseOf(FileL) + 2
  /\ read_word(mem, BaseOf(FileA) + 2) = 52
  /\ read_word(mem, BaseOf(FileA) + 3) = 53
  /\ read_word(mem, BaseOf(FileA) + 4) = 8 - PE(FileA).imagebase + BaseOf(FileA)

\* the relocation targets of an image mapped at base
RelocTargets(f, base, types) ==
  UNION { {base + PE(f).relocations[b].va + PE(f).relocations[b].entries[k].position
             : k \in {n \in DOMAIN PE(f).relocations[b].entries :
                        PE(f).relocations[b].entries[n].type \in types}}
          : b \in DOMAIN PE(f).relocations }

RelocTypes == {"HIGHLOW", "DIR64"}

TableBits(high_entropy, is_dll) ==
  IF high_entropy THEN (IF is_dll THEN 19 ELSE 17) ELSE (IF is_dll THEN 14 ELSE 8)

TableFloor(high_entropy, is_dll) ==
  IF high_entropy /\ is_dll THEN AslrFloor ELSE 0

\* the image was placed by randomization: neither at the base its request
\* carries nor at its preferred base
Randomized(l) ==
  /\ l.base # l.info.base
  /\ l.base # PE(l.info.file).imagebase

\* C11: for each (high-entropy, library) combination calculate_aslr returns
\* floor + r units of 2^16 bytes with 0 <= r < 2^bits, bits being 19, 17, 14
\* and 8; the floor is non-zero and added only for (high-entropy, library);
\* every randomized base of the mapped-image table is such an offset, with
\* or without the preferred base.
C11_EntropyTable ==
  /\ AslrFloor # 0
  /\ \A he \in BOOLEAN : \A dll \in BOOLEAN :
       /\ bits_amount(he, dll) = TableBits(he, dll)
       /\ \A r \in RandBits(bits_amount(he, dll)) :
            /\ 0 <= r /\ r < 2^TableBits(he, dll)
            /\ calculate_aslr(he, dll, r) = TableFloor(he, dll) + r
       /\ \E r \in RandBits(bits_amount(he, dll)) :
            calculate_aslr(he, dll, r) = TableFloor(he, dll) + 2^TableBits(he, dll) - 1
  /\ \A i \in DOMAIN loaded :
       Randomized(loaded[i]) =>
         LET pe == PE(loaded[i].info.file)
             off == loaded[i].base - TableFloor(pe.high_entropy, pe.is_dll)
         IN  \/ 0 <= off /\ off < 2^TableBits(pe.high_entropy, pe.is_dll)
             \/ /\ 0 <= off - pe.imagebase
                /\ off - pe.imagebase < 2^TableBits(pe.high_entropy, pe.is_dll)

\* a high-entropy library sits at the top of its 19-bit range above the
\* floor, and an image without high entropy was randomized below the floor
C11_Witness ==
  /\ IsLoaded(loaded, FileM)
  /\ BaseOf(FileM) = AslrFloor + (2^19 - 1) + PE(FileM).imagebase
  /\ \E i \in DOMAIN loaded :
       /\ Randomized(loaded[i])
       /\ ~PE(loaded[i].info.file).high_entropy
       /\ loaded[i].base < AslrFloor

\* C12: a randomized base is the first candidate floor + r + preferred base,
\* or a retried candidate, which redraws r, keeps the preferred base and
\* leaves the floor out: r + preferred base, with 0 <= r < 2^bits.
C12_RetryKeepsPreferredBase ==
  \A i \in DOMAIN loaded :
    Randomized(loaded[i]) =>
      LET pe == PE(loaded[i].info.file)
          off == loaded[i].base - pe.imagebase
          bits == TableBits(pe.high_entropy, pe.is_dll)
      IN  \/ /\ 0 <= off - TableFloor(pe.high_entropy, pe.is_dll)
             /\ off - TableFloor(pe.high_entropy, pe.is_dll) < 2^bits
          \/ 0 <= off /\ off < 2^bits

\* ------------------------------------------------------- dependency lookup
\* the dependency the innermost frame is resolving
CurDep == PE(Top.obj.file).imports[Top.dep]

\* C13: the library handed to _load_iat for a dependency is the mapped image
\* whose file is exactly the dependency's name whenever there is one; and a
\* pending request is entered from import resolution only when no mapped
\* image's file is the dependency's name.
C13_MappedBeforePending ==
  [][ InIat =>
        /\ UsedLib # NoFile =>
             \A k \in DOMAIN Top.snap :
               Top.snap[k] = CurDep.name => UsedLib = Top.snap[k]
        /\ \A obj \in Entering :
             ~IsLoaded(loaded, obj.file) =>
               \A y \in LoadedFiles : y # CurDep.name ]_vars

\* the names of the header and section segments of an image
SegmentNames(f) ==
  {HeaderName(f)}
    \cup {SectionName(f, PE(f).sections[k].name) : k \in DOMAIN PE(f).sections}

\* every segment of the image is registered in the memory subsystem
Registered(f) == \A n \in SegmentNames(f) : \E s \in segments : s.name = n

\* a _handle invocation for the file has not returned yet
InProgress(f) == \E k \in DOMAIN stack : stack[k].obj.file = f

\* _load_iat for this dependency and library writes at least one slot
WritesSlot(dependency, lib) ==
  \E k \in DOMAIN dependency.entries :
    ExportOf(PE(lib), dependency.entries[k].name) # NoBase

\* C14: whenever _load_iat writes into the import table of X from library
\* Y, every header and section segment of X and of Y is registered in the
\* memory subsystem and no _handle invocation of Y is still in progress.
C14_WritesAfterFullyMapped ==
  [][ (InIat /\ UsedLib # NoFile /\ WritesSlot(CurDep, UsedLib)) =>
        /\ Registered(Top.obj.file)
        /\ Registered(UsedLib)
        /\ ~InProgress(UsedLib) ]_vars

\* ------------------------------------------------------------- re-entrancy
\* the steps a running _handle_interact or prepare call still has to take
\* are bounded by Rank: the steps left in each frame (per dependency one per
\* key of the snapshot and one for the loop's else, then _handle_reloc), one
\* per object not yet handled, and a whole frame for each file not yet mapped
MaxDeps == Len(PE(FileA).imports)
FrameSteps(fr) ==
  LET n == Len(PE(fr.obj.file).imports) IN
  IF fr.dep > n THEN 1
  ELSE (n - fr.dep) * (Cardinality(Files) + 1) + (Len(fr.snap) - fr.si + 1) + 2

RECURSIVE StackSteps(_)
StackSteps(stk) ==
  IF stk = << >> THEN 0 ELSE FrameSteps(Head(stk)) + StackSteps(Tail(stk))

Rank ==
  (MaxDeps * (Cardinality(Files) + 1) + 3) * Cardinality(Files \ LoadedFiles)
    + StackSteps(stack) + Len(pending) + (IF flushing THEN 1 ELSE 0)

\* a running call has a next step: an object to handle, a frame to advance,
\* or the queue to clear; and entering _handle has an outcome
CanStep ==
  /\ \/ stack # << >>
     \/ pending # << >>
     \/ flushing
  /\ \A obj \in Entering :
       IsLoaded(loaded, obj.file) \/ pick_base(segments, obj, PE(obj.file)) # {}

\* C15: the _handle invocations nested inside a top-level one by import
\* resolution are never more than the requests in the pending queue (during
\* the flush of prepare every invocation is counted); and a running call
\* always has a next step, each of which lowers the natural number Rank, so
\* the call returns or raises after finitely many steps.
C15_ReentrancyBounded ==
  /\ [](/\ Len(stack) <= Len(queue) + 1
        /\ flushing => Len(stack) <= Len(queue)
        /\ Rank >= 0
        /\ ~Idle => CanStep)
  /\ [][~Idle => Rank' < Rank]_vars

\* two pipeline invocations are nested during the flush of a two-request queue
C15_Witness ==
  /\ flushing
  /\ Len(queue) = 2
  /\ Len(stack) = 2
  /\ stack[1].obj.file # stack[2].obj.file

\* ------------------------------------------------------------------- cycles
\* X has a dependency whose name Y's path contains
ImportsByName(x, y) ==
  \E d \in DOMAIN PE(x).imports : Contains(y, PE(x).imports[d].name)

MutualImport(x, y) == x # y /\ ImportsByName(x, y) /\ ImportsByName(y, x)

RelocatedFiles == {relocated[i] : i \in DOMAIN relocated}

IntendedPerms(name) ==
  IF name.kind = "HEADER" THEN PermR
  ELSE LET secs == PE(name.file).sections
           k == CHOOSE n \in DOMAIN secs : secs[n].name = name.sec
       IN  secs[k].perms

\* every segment descriptor the loader has handed to the StreamMapper
LoaderSegments == UNION {SubmittedFor(f) : f \in Files}

\* C17: with an EnforceMemory instance, every header and section segment
\* the loader maps has permissions RWX and its intended permission is
\* registered with that instance; without one, every segment has its
\* intended permission and nothing is registered.
C17_OverridePermissions ==
  \A s \in LoaderSegments :
    IF enfPlug # NoPlugin
      THEN /\ s.perms = PermRWX
           /\ [name |-> s.name, perms |-> IntendedPerms(s.name)] \in enforced
      ELSE /\ s.perms = IntendedPerms(s.name)
           /\ \A e \in enforced : e.name # s.name

\* ------------------------------------------------------------------ NotReady
\* C18: a pipeline operation called on an Unattached loader raises
\* HSPluginInteractNotReadyError and changes neither the loader nor the
\* registered plugins and memory.
C18_NotReadySurfaced ==
  [][ (emu = NoEmu /\ lastOp' \in PipelineOps) =>
        /\ err'.kind = "NotReady"
        /\ UNCHANGED <<loaderVars, worldVars, enforced, runVars>> ]_vars

\* ------------------------------------------------------- completed pipelines
\* C19: whenever no call is running, every image of the mapped-image table
\* has been through the whole pipeline: its header and sections were handed
\* to the StreamMapper and its _handle_reloc has run, which follows the
\* resolution of all its dependencies; also after a call that raised.
C19_TableHoldsCompletedImages ==
  Idle =>
    \A f \in LoadedFiles :
      /\ \A n \in SegmentNames(f) : \E s \in SubmittedFor(f) : s.name = n
      /\ f \in RelocatedFiles

\* ------------------------------------------------- acquired collaborators
\* the instances registered before any require: settings only grows by the
\* instances require constructs, which are appended
PreRegistered == 1..(Len(settings) - Len(constructed))

\* C20 (as stated): every instance require has returned is Attached.
C20_RequireReturnsAttached ==
  \A i \in DOMAIN returned : plugEmu[returned[i][2]] # NoEmu

\* C20 (amended): an instance require constructed is Attached to the given
\* backing service; an instance it found is returned as it is, so a
\* returned instance that is Unattached was registered beforehand; a
\* require call neither attaches a registered instance nor flushes its queue.
C20_RequirePreparesOnlyNew ==
  /\ [](/\ \A i \in DOMAIN settings :
             i \notin PreRegistered => plugEmu[i] = MainEmu
        /\ \A i \in DOMAIN returned :
             plugEmu[returned[i][2]] = NoEmu => returned[i][2] \in PreRegistered)
  /\ [][ lastOp' = "require" =>
           \A i \in DOMAIN settings :
             plugEmu'[i] = plugEmu[i] /\ plugQueue'[i] = plugQueue[i] ]_vars

\* the loader attached: require constructed its Segment collaborator, which
\* is Attached, and found a registered StreamMapper, which is not and holds
\* the segments submitted to it in its queue
C20_Witness ==
  /\ emu = MainEmu
  /\ segPlug \notin PreRegistered
  /\ plugEmu[segPlug] = MainEmu
  /\ smPlug \in PreRegistered
  /\ plugEmu[smPlug] = NoEmu
  /\ plugQueue[smPlug] # << >>
  /\ \E i \in DOMAIN returned : returned[i] = <<"StreamMapper", smPlug>>

====
